---- MODULE Spec2Model ----
(***************************************************************************)
(* A model of the reconciliation / validation helpers of the Proxmox       *)
(* Terraform provider:                                                     *)
(*   proxmoxtf/utils.go          getDiskInfo, parseDiskSize, the validators *)
(*   proxmox/virtual_environment_network.go   ListNetworks                 *)
(*                                                                         *)
(* Go values are modelled as follows.                                      *)
(*   - a pointer to T is a sequence   of length <= 1: << >> is nil, <<a>> is  *)
(*     a pointer to the object at address a;                               *)
(*   - a map is a function whose DOMAIN is the set of keys present;         *)
(*   - a string that the code inspects character by character is a         *)
(*     sequence of one-character strings.                                  *)
(***************************************************************************)
EXTENDS Integers, Sequences, FiniteSets, TLC

VARIABLES
    \* ---- getDiskInfo -------------------------------------------------
    vm,         \* the VM response: slot key -> pointer to its device (or nil)
    mem,        \* the memory: [dev |-> the CustomStorageDevice objects by address,
                \*              str |-> the string variables pointers refer to]
    mem0,       \* the memory as it was when the platform's response arrived (history)
    disk,       \* d.Get("disk"): the list of declared disk blocks
    tables,     \* the maps returned by the calls of getDiskInfo, in call order
    \* ---- ListNetworks ------------------------------------------------
    netResp,    \* what DoRequest gave the last call: nil before any call, else
                \* a pointer to [err, body] (the error and the JSON body received)
    netOut,     \* what the last call returned: nil, or a pointer to [data, err]
    \* ---- validators and parseDiskSize --------------------------------
    valIn,      \* the function under test and the value handed to it: [fn, arg]
    valOut      \* its result: nil while it has not run, else a pointer to it

vars == << vm, mem, mem0, disk, tables, netResp, netOut, valIn, valOut >>

diskVars == << vm, mem, mem0, disk, tables >>
netVars  == << netResp, netOut >>
valVars  == << valIn, valOut >>

\* ------------------------------------------------------------------------
\* Go pointers and maps
\* ------------------------------------------------------------------------
Nil == << >>

Ptr(a) == << a >>

Deref(p) == p[1]

\* m[k] on a Go map: the zero value (nil) when the key is not present.
MapGet(m, k) == IF k \in DOMAIN m THEN m[k] ELSE Nil

\* m[k] = v on a Go map.
MapSet(m, k, v) == (k :> v) @@ m

EmptyMap == << >>

\* ------------------------------------------------------------------------
\* getDiskInfo (proxmoxtf/utils.go)
\* ------------------------------------------------------------------------

\* The keys getDiskInfo assigns, in the order of its assignment statements.
StorageDeviceKeys ==
    << "ide0", "ide1", "ide2",
       "sata0", "sata1", "sata2", "sata3", "sata4", "sata5",
       "scsi0", "scsi1", "scsi2", "scsi3", "scsi4", "scsi5", "scsi6",
       "scsi7", "scsi8", "scsi9", "scsi10", "scsi11", "scsi12", "scsi13",
       "virtio0", "virtio1", "virtio2", "virtio3", "virtio4", "virtio5",
       "virtio6", "virtio7", "virtio8", "virtio9", "virtio10", "virtio11",
       "virtio12", "virtio13", "virtio14", "virtio15" >>

\* The fields of VirtualEnvironmentVMGetResponseData that getDiskInfo reads.
Universe == { StorageDeviceKeys[i] : i \in 1..Len(StorageDeviceKeys) }

\* Slot names one index past each bus's last slot: no field of the response.
OutsideSlots == { "ide3", "sata6", "scsi14", "virtio16" }

\* Bounds of the inputs.
MaxDisks == 2

MaxCalls == 2

\* The slots at which the modelled platform may report a device.
DeviceSlots == { "scsi2", "virtio15" }

\* The disk blocks (map[string]interface{}) the modelled configuration may
\* hold: blocks for a slot of the response with no file_id value and with two
\* different ones, and a block for a slot name that is no field of the response.
DiskBlocks ==
    { [interface |-> "scsi2", file_id |-> Nil],
      [interface |-> "scsi2", file_id |-> Ptr("local:iso/x.img")],
      [interface |-> "scsi2", file_id |-> Ptr("local:iso/y.img")],
      [interface |-> "scsi14", file_id |-> Ptr("local:iso/x.img")] }

\* The file identifier the platform may report for its devices.
RemoteFileIDs == { Nil, Ptr("local:iso/remote.img") }

RECURSIVE SeqsUpTo(_, _)
SeqsUpTo(S, n) ==
    IF n = 0 THEN { << >> }
    ELSE LET shorter == SeqsUpTo(S, n - 1)
         IN  shorter \cup { Append(s, x) : s \in { t \in shorter : Len(t) = n - 1 }, x \in S }

\* Lines 393-398: the loop that indexes the declared blocks by interface;
\* a later block with the same interface replaces the earlier one.
RECURSIVE currentDiskMapFrom(_, _)
currentDiskMapFrom(list, m) ==
    IF list = << >> THEN m
    ELSE currentDiskMapFrom(Tail(list), MapSet(m, Head(list).interface, Head(list)))

\* A variant in which an earlier block is not replaced by a later one.
RECURSIVE currentDiskMapKeepsFirstFrom(_, _)
currentDiskMapKeepsFirstFrom(list, m) ==
    IF list = << >> THEN m
    ELSE currentDiskMapKeepsFirstFrom(Tail(list),
             IF Head(list).interface \in DOMAIN m THEN m
             ELSE MapSet(m, Head(list).interface, Head(list)))

currentDiskMapKeepsFirst(list) == currentDiskMapKeepsFirstFrom(list, EmptyMap)

currentDiskMap(list) == currentDiskMapFrom(list, EmptyMap)

\* Lines 400-443: storageDevices[key] = vm.<field of key>, one statement per key.
RECURSIVE storageDevicesFrom(_, _, _)
storageDevicesFrom(vmData, keys, m) ==
    IF keys = << >> THEN m
    ELSE storageDevicesFrom(vmData, Tail(keys), MapSet(m, Head(keys), vmData[Head(keys)]))

\* A variant with a copy-paste slip in the last statement: it assigns
\* "virtio14" a second time, and "virtio15" never.
storageDevicesRepeatedKey(vmData) ==
    MapSet(storageDevicesFrom(vmData, SubSeq(StorageDeviceKeys, 1, Len(StorageDeviceKeys) - 1),
                              EmptyMap),
           "virtio14", vmData["virtio15"])

\* A variant with a slip in the first statement: "ide0" is given the field
\* of "scsi2".
storageDevicesWrongField(vmData) ==
    MapSet(storageDevicesFrom(vmData, StorageDeviceKeys, EmptyMap), "ide0", vmData["scsi2"])

storageDevices(vmData) == storageDevicesFrom(vmData, StorageDeviceKeys, EmptyMap)

\* Lines 446-455: one iteration of `for k, v := range storageDevices`.
\* m is the memory, kAddr the address of the loop variable k.  The loop
\* variable is one variable for the whole loop (the semantics of `for` before
\* Go 1.22, which is what a module of this vintage builds with), so &k is the
\* same pointer in every iteration.  fileID is a fresh variable in every
\* iteration that declares it, so v.FileID is modelled by the value it holds.
LoopBody(m, devs, diskMap, key, kAddr) ==
    LET v == devs[key]
        withK == [m EXCEPT !.str[kAddr] = key]
    IN  IF v = Nil THEN withK
        ELSE LET decl == MapGet(diskMap, key)
                 a == Deref(v)
             IN  IF decl # Nil /\ decl.file_id # Nil
                 THEN [withK EXCEPT !.dev[a].FileID = decl.file_id,
                                    !.dev[a].Interface = Ptr(kAddr)]
                 ELSE [withK EXCEPT !.dev[a].Interface = Ptr(kAddr)]

RECURSIVE RangeLoop(_, _, _, _, _)
RangeLoop(m, devs, diskMap, order, kAddr) ==
    IF order = << >> THEN m
    ELSE RangeLoop(LoopBody(m, devs, diskMap, Head(order), kAddr),
                   devs, diskMap, Tail(order), kAddr)

\* The keys of a map, in some order.
RECURSIVE KeysOf(_)
KeysOf(m) ==
    IF DOMAIN m = {} THEN << >>
    ELSE LET k == CHOOSE x \in DOMAIN m : TRUE
         IN  << k >> \o KeysOf([x \in (DOMAIN m) \ {k} |-> m[x]])

\* An iteration order of the map's keys that ends with key `last`.  Go leaves
\* the order of a map range unspecified; the iterations for different keys
\* write different device objects, so of the order only its last key can be
\* seen afterwards (it is the value k keeps).
OrderEndingWith(keys, last) ==
    SelectSeq(keys, LAMBDA x : x # last) \o << last >>

\* Garbage collection: the string variables no device object refers to any
\* more are dropped from the memory.
Collect(m) ==
    [m EXCEPT !.str = [a \in { x \in DOMAIN m.str :
                                 \E dv \in DOMAIN m.dev : m.dev[dv].Interface = Ptr(x) }
                         |-> m.str[a]]]

\* The interface name and file identifier read through a device pointer.
InterfaceOf(m, p) ==
    IF m.dev[Deref(p)].Interface = Nil THEN Nil
    ELSE Ptr(m.str[Deref(m.dev[Deref(p)].Interface)])

FileIDOf(m, p) == m.dev[Deref(p)].FileID

\* `for k, v := range ...` declares its variable k: a new string variable at
\* address kAddr, holding the zero value until the first iteration assigns it.
DeclareK(m, kAddr) == [m EXCEPT !.str = MapSet(@, kAddr, "")]

\* getDiskInfo(vm, d), the whole function.  The call's loop variable gets the
\* number of the call as its address.
GetDiskInfo ==
    /\ Len(tables) < MaxCalls
    /\ \E diskMap \in { currentDiskMap(disk) }, devs \in { storageDevices(vm) } :
         \E keys \in { KeysOf(devs) }, kAddr \in { Len(tables) + 1 } :
           \E last \in DOMAIN devs :
             \E m \in { RangeLoop(DeclareK(mem, kAddr), devs, diskMap,
                                  OrderEndingWith(keys, last), kAddr) } :
               /\ mem' = Collect(m)
               /\ tables' = Append(tables, devs)
    /\ UNCHANGED << vm, mem0, disk, netVars, valVars >>

NetIdle ==
    /\ netResp = Nil
    /\ netOut = Nil

ValIdle ==
    /\ valIn = [fn |-> "none"]
    /\ valOut = Nil

DiskIdle ==
    /\ vm = [k \in Universe |-> Nil]
    /\ mem = [dev |-> EmptyMap, str |-> EmptyMap]
    /\ mem0 = mem
    /\ disk = << >>
    /\ tables = << >>

\* The state when getDiskInfo is first called: the platform reported a device
\* (a fresh object of its own) at some of the slots, and the configuration
\* holds a list of disk blocks.
InitDisk ==
    /\ \E present \in SUBSET DeviceSlots :
         /\ vm = [k \in Universe |-> IF k \in present THEN Ptr(k) ELSE Nil]
         /\ \E f \in RemoteFileIDs :
              mem = [dev |-> [a \in present |-> [FileID |-> f, Interface |-> Nil]],
                     str |-> EmptyMap]
    /\ mem0 = mem
    /\ disk \in SeqsUpTo(DiskBlocks, MaxDisks)
    /\ tables = << >>
    /\ NetIdle
    /\ ValIdle

NextDisk == GetDiskInfo

SpecDisk == InitDisk /\ [][NextDisk]_vars

\* ------------------------------------------------------------------------
\* Properties of getDiskInfo
\* ------------------------------------------------------------------------
SlotName(bus, i) == bus \o ToString(i)

\* The documented universe: ide0-2, sata0-5, scsi0-13, virtio0-15.
FixedSlots ==
    { SlotName("ide", i) : i \in 0..2 } \cup { SlotName("sata", i) : i \in 0..5 }
    \cup { SlotName("scsi", i) : i \in 0..13 } \cup { SlotName("virtio", i) : i \in 0..15 }

Returned == 1..Len(tables)

\* The indices of the disk blocks declared for slot s, and the last of them.
BlocksFor(s) == { j \in 1..Len(disk) : disk[j].interface = s }

LastBlockFor(s) == disk[CHOOSE j \in BlocksFor(s) : \A j2 \in BlocksFor(s) : j2 <= j]

\* C1: the table getDiskInfo returns has exactly the 39 fixed slots
\* ide0-2, sata0-5, scsi0-13, virtio0-15 as its keys, whatever the snapshot
\* and the declarations (also declarations naming scsi14, sata6, ide3, virtio16).
C1_KeySetIsFixedUniverse ==
    \A i \in Returned :
        /\ DOMAIN tables[i] = FixedSlots
        /\ Cardinality(DOMAIN tables[i]) = 39
        /\ DOMAIN tables[i] \cap OutsideSlots = {}

\* A call has returned for a sparse snapshot and a configuration that holds a
\* duplicated interface and an interface outside the universe.
C1_Witness ==
    /\ Len(tables) >= 1
    /\ vm["scsi2"] # Nil /\ vm["virtio15"] = Nil
    /\ \E j \in 1..Len(disk) : disk[j].interface \in OutsideSlots
    /\ DOMAIN tables[1] = FixedSlots

\* C2: non-creation.  A slot at which the snapshot reports no device is
\* unassigned (nil) in the returned table, whether or not a declaration names
\* the slot and whatever file identifier the declaration carries.
C2_NonCreation ==
    \A i \in Returned : \A s \in FixedSlots :
        vm[s] = Nil => MapGet(tables[i], s) = Nil

\* A call has returned for a configuration that declares scsi2 with a file
\* identifier while the snapshot has no device at scsi2.
C2_Witness ==
    /\ Len(tables) >= 1
    /\ vm["scsi2"] = Nil
    /\ \E j \in 1..Len(disk) :
         disk[j].interface = "scsi2" /\ disk[j].file_id = Ptr("local:iso/x.img")
    /\ MapGet(tables[1], "scsi2") = Nil

\* C3: after getDiskInfo has returned, the descriptor at every slot whose
\* snapshot holds a device carries that slot's own name as its interface name.
C3_InterfaceIsOwnSlot ==
    \A i \in Returned : \A s \in FixedSlots :
        vm[s] # Nil => InterfaceOf(mem, tables[i][s]) = Ptr(s)

\* C4 as stated: for a slot with a device, if some declaration for the slot
\* specifies a file identifier, the output's file identifier is the value of
\* the last declaration for the slot (read either as that block's own
\* file_id or as the last file_id any block for the slot specifies); if none
\* specifies one, it is the remote device's file identifier.
C4_FileIDAsStated ==
    \A i \in Returned : \A s \in FixedSlots :
        vm[s] # Nil =>
            LET specified == { j \in BlocksFor(s) : disk[j].file_id # Nil }
                out == FileIDOf(mem, tables[i][s])
            IN  IF specified # {}
                THEN \/ out = LastBlockFor(s).file_id
                     \/ out = disk[CHOOSE j \in specified : \A j2 \in specified : j2 <= j].file_id
                ELSE out = FileIDOf(mem0, vm[s])

\* C4 as amended: for a slot with a device, the output's file identifier is
\* the file_id of the LAST declaration for the slot when that last declaration
\* specifies one; when there is no declaration for the slot, or the last one
\* specifies none (even if an earlier duplicate did), it is the remote device's
\* file identifier.  Declarations for other names, in particular names outside
\* the universe, have no part in it, and add no key to the table.
C4_FileIDFromLastBlock ==
    \A i \in Returned :
        /\ DOMAIN tables[i] = FixedSlots
        /\ \A s \in FixedSlots :
             vm[s] # Nil =>
                 LET out == FileIDOf(mem, tables[i][s])
                 IN  IF BlocksFor(s) # {} /\ LastBlockFor(s).file_id # Nil
                     THEN out = LastBlockFor(s).file_id
                     ELSE out = FileIDOf(mem0, vm[s])

\* A call has returned for a device at scsi2 declared twice, with different
\* file identifiers, next to a declaration outside the universe; and the
\* last declaration's value is what the descriptor carries.
C4_Witness ==
    /\ Len(tables) >= 1
    /\ vm["scsi2"] # Nil
    /\ Len(disk) = 2
    /\ disk[1] = [interface |-> "scsi2", file_id |-> Ptr("local:iso/x.img")]
    /\ disk[2] = [interface |-> "scsi2", file_id |-> Ptr("local:iso/y.img")]
    /\ FileIDOf(mem, tables[1]["scsi2"]) = Ptr("local:iso/y.img")
    /\ FileIDOf(mem0, vm["scsi2"]) = Ptr("local:iso/remote.img")

\* C5: getDiskInfo leaves the snapshot as it was: every device descriptor of
\* the snapshot has the file identifier and the interface name it had before
\* the call, and the table's descriptors are copies, not the snapshot's own.
C5_SnapshotUnchanged ==
    \A i \in Returned : \A s \in FixedSlots :
        vm[s] # Nil =>
            /\ FileIDOf(mem, vm[s]) = FileIDOf(mem0, vm[s])
            /\ InterfaceOf(mem, vm[s]) = InterfaceOf(mem0, vm[s])
            /\ tables[i][s] # vm[s]

\* What a caller reads in the entry of slot s of table t while the memory is m:
\* whether the slot is assigned and, if it is, its file identifier and its
\* interface name.
EntryOf(m, t, s) ==
    IF t[s] = Nil THEN [assigned |-> FALSE]
    ELSE [assigned |-> TRUE, FileID |-> FileIDOf(m, t[s]),
          Interface |-> InterfaceOf(m, t[s])]

\* The step that is the second of two successive calls of getDiskInfo.
SecondCall == Len(tables) = 1 /\ Len(tables') = 2

\* C11: getDiskInfo is idempotent: the table the second of two successive
\* calls returns (same declarations, same snapshot object) is, as it is
\* returned, equal entry by entry to the table the first call returned: the
\* same assigned / unassigned status, file identifier and interface name in
\* each of the 39 slots.
C11_Idempotent ==
    [][ SecondCall =>
          \A s \in FixedSlots :
              EntryOf(mem', tables'[2], s) = EntryOf(mem, tables[1], s) ]_vars

\* The part of C11 that does not involve the interface name: status and file
\* identifier of every slot are the same in the two tables as returned.
C11_SameStatusAndFileID ==
    [][ SecondCall =>
          \A s \in FixedSlots :
              /\ (tables'[2][s] = Nil) = (tables[1][s] = Nil)
              /\ tables[1][s] # Nil =>
                     FileIDOf(mem', tables'[2][s]) = FileIDOf(mem, tables[1][s]) ]_vars

\* ------------------------------------------------------------------------
\* ListNetworks (proxmox/virtual_environment_network.go)
\* ------------------------------------------------------------------------

\* Bound: the longest list of records a modelled response carries.
MaxRecords == 3

\* The errors DoRequest may return ("" is the nil error).
RequestErrors == { "", "dial tcp: connection refused" }

\* One record of the JSON list; a pointer field is nil when the key is omitted.
WireRecords ==
    [ address : { "10.0.0.1/24", "10.0.0.2/24" },
      priority : { Nil, Ptr(0), Ptr(1) },
      type : { "bridge" } ]

\* The JSON body: data is nil when the body has no "data" key, else a
\* pointer to the list under that key.
WireBodies ==
    { [data |-> Nil] } \cup { [data |-> Ptr(l)] : l \in SeqsUpTo(WireRecords, MaxRecords) }

\* VirtualEnvironmentNetworkListResponseData as decoded from one JSON record:
\* a key the record omits leaves the field's zero value.
DecodeRecord(r) ==
    [ Address |-> r.address,
      Priority |-> IF r.priority = Nil THEN 0 ELSE Deref(r.priority),
      Type |-> r.type ]

\* VirtualEnvironmentNetworkListResponseBody as decoded into
\* resBody := &VirtualEnvironmentNetworkListResponseBody{}: Data stays the nil
\* slice when the body has no "data" key, and is a slice (empty or not) of
\* pointers to record objects otherwise.  The i-th record of the list is the
\* object at address i; objs holds the objects.
DecodeBody(body) ==
    IF body.data = Nil
    THEN [ Data |-> Nil, objs |-> << >> ]
    ELSE [ Data |-> Ptr([i \in 1..Len(Deref(body.data)) |-> Ptr(i)]),
           objs |-> [i \in 1..Len(Deref(body.data)) |-> DecodeRecord(Deref(body.data)[i])] ]

\* The less function handed to sort.Slice (lines 27-29), on two elements.
PriorityLess(objs, x, y) == objs[Deref(x)].Priority < objs[Deref(y)].Priority

\* sort.Slice(resBody.Data, less): the slice holds the same elements, ordered
\* so that no element is less than one before it.  sort.Slice, unlike
\* sort.SliceStable, promises nothing on the order of elements neither of
\* which is less than the other, so every such arrangement is an outcome.
SortSlice(objs, data) ==
    { sorted \in { [i \in 1..Len(data) |-> data[p[i]]] : p \in Permutations(1..Len(data)) } :
        \A i, j \in 1..Len(data) : i < j => ~PriorityLess(objs, sorted[j], sorted[i]) }

ProtocolError == "The server did not include a data object in the response"

\* A variant of the check of line 23 that takes an empty list for a missing one.
DataIsNilOrEmpty(resBody) == resBody.Data = Nil \/ Deref(resBody.Data) = << >>

\* Line 23: resBody.Data == nil.
DataIsNil(resBody) == resBody.Data = Nil

\* ListNetworks(nodeName, d), the whole method; DoRequest's outcome (its error
\* and the body it decoded) is the input.  The method keeps nothing from one
\* call to the next, so one call per behaviour shows all it can do.
ListNetworks ==
    /\ netResp = Nil
    /\ \E err \in RequestErrors, body \in WireBodies :
         /\ netResp' = Ptr([err |-> err, body |-> body])
         /\ \E resBody \in { DecodeBody(body) } :
              IF err # ""
              THEN netOut' = Ptr([data |-> Nil, err |-> err])
              ELSE IF DataIsNil(resBody)
                   THEN netOut' = Ptr([data |-> Nil, err |-> ProtocolError])
                   ELSE \E sorted \in SortSlice(resBody.objs, Deref(resBody.Data)) :
                          netOut' = Ptr([data |-> Ptr(sorted), err |-> ""])
    /\ UNCHANGED << diskVars, valVars >>

InitNet ==
    /\ NetIdle
    /\ DiskIdle
    /\ ValIdle

NextNet == ListNetworks

SpecNet == InitNet /\ [][NextNet]_vars

\* ------------------------------------------------------------------------
\* Properties of ListNetworks
\* ------------------------------------------------------------------------

\* The priority of the record at address a of the last response, an omitted
\* priority counting as 0.
WirePriority(a) ==
    LET r == Deref(Deref(netResp).body.data)[a]
    IN  IF r.priority = Nil THEN 0 ELSE Deref(r.priority)

NetSucceeded == netOut # Nil /\ Deref(netOut).err = "" /\ Deref(netOut).data # Nil

\* C6: on success the returned sequence is a permutation of the response's
\* records, in ascending order of priority (omitted: 0), and two records of
\* equal priority keep the relative order they had in the response.
C6_StableAscending ==
    NetSucceeded =>
        LET out == Deref(Deref(netOut).data)
            n == Len(Deref(Deref(netResp).body.data))
        IN  /\ Len(out) = n
            /\ \A a \in 1..n : \E i \in 1..n : out[i] = Ptr(a)
            /\ \A i, j \in 1..n :
                 i < j => WirePriority(Deref(out[i])) <= WirePriority(Deref(out[j]))
            /\ \A i, j \in 1..n :
                 (i < j /\ WirePriority(Deref(out[i])) = WirePriority(Deref(out[j])))
                     => Deref(out[i]) < Deref(out[j])

\* C7: the outcome by the shape of the response.  DoRequest's error is
\* returned as it is, with no data; a body with no data field gives the
\* protocol error, with no data; a body whose data field holds an empty list
\* gives an empty sequence and no error; and a list that is present, empty or
\* not, is never reported as the protocol error.
C7_OutcomeByShape ==
    netOut # Nil =>
        LET resp == Deref(netResp)
            out == Deref(netOut)
        IN  /\ resp.err # "" => out = [data |-> Nil, err |-> resp.err]
            /\ (resp.err = "" /\ resp.body.data = Nil)
                   => out = [data |-> Nil, err |-> ProtocolError]
            /\ (resp.err = "" /\ resp.body.data = Ptr(<< >>))
                   => out = [data |-> Ptr(<< >>), err |-> ""]
            /\ (resp.err = "" /\ resp.body.data # Nil) => out.err = ""

\* ListNetworks has returned for a body whose data field holds an empty list.
C7_Witness ==
    /\ netOut # Nil
    /\ Deref(netResp) = [err |-> "", body |-> [data |-> Ptr(<< >>)]]
    /\ Deref(netOut).err = ""

\* ------------------------------------------------------------------------
\* The list validators (proxmoxtf/utils.go)
\* ------------------------------------------------------------------------

\* Bound: the longest list handed to a list validator.
MaxList == 3

\* min and max of getVLANIDsValidator.
VLANMin == 1

VLANMax == 4094

\* interface{} values: an int, a string, or (as the validator's argument) a
\* []interface{} of them.
IntValue(n) == [type |-> "int", int |-> n]

StringValue(str) == [type |-> "string", str |-> str]

ListValue(l) == [type |-> "list", list |-> l]

\* The elements of the modelled VLAN id lists: the sentinel, the two ends of
\* the range, their outer neighbours, and a value that is no int.
VLANElements == { IntValue(n) : n \in { -1, 0, 1, 4094, 4095 } } \cup { StringValue("7") }

\* The flags getCPUFlagsValidator accepts.
CPUFlags ==
    { "+aes", "-aes", "+amd-no-ssb", "-amd-no-ssb", "+amd-ssbd", "-amd-ssbd",
      "+hv-evmcs", "-hv-evmcs", "+hv-tlbflush", "-hv-tlbflush", "+ibpb", "-ibpb",
      "+md-clear", "-md-clear", "+pcid", "-pcid", "+pdpe1gb", "-pdpe1gb",
      "+spec-ctrl", "-spec-ctrl", "+ssbd", "-ssbd", "+virt-ssbd", "-virt-ssbd" }

\* The elements of the modelled CPU flag lists.
CPUFlagElements ==
    { StringValue(f) : f \in { "+aes", "-virt-ssbd", "aes", "+AES", "+avx" } } \cup { IntValue(1) }

\* The errors, by what their message says: the kind, the index the message
\* names (nil when it names only the field), and the offending value.
TypeError(index) == [kind |-> "type", index |-> index]

RangeError(index, got) == [kind |-> "range", index |-> index, got |-> got]

MemberError(got) == [kind |-> "member", index |-> Nil, got |-> got]

\* Lines 344-358: the loop of getVLANIDsValidator from position pos on (the
\* Go index li is pos - 1); each `return` ends the scan.
RECURSIVE VLANLoop(_, _, _)
VLANLoop(list, pos, es) ==
    IF pos > Len(list) THEN es
    ELSE IF list[pos].type # "int"
         THEN Append(es, TypeError(Ptr(pos - 1)))
         ELSE IF list[pos].int # -1 /\ (list[pos].int < VLANMin \/ list[pos].int > VLANMax)
              THEN Append(es, RangeError(Ptr(pos - 1), list[pos].int))
              ELSE VLANLoop(list, pos + 1, es)

\* getVLANIDsValidator()(i, k): the warnings and errors it returns.
getVLANIDsValidator(i) ==
    IF i.type # "list"
    THEN [ws |-> << >>, es |-> << TypeError(Nil) >>]
    ELSE [ws |-> << >>, es |-> VLANLoop(i.list, 1, << >>)]

\* validation.StringInSlice(valid, false)(v, k): an exact, case-sensitive
\* membership test; its error names the field k.
StringInSlice(valid, v) ==
    IF v \in valid THEN [ws |-> << >>, es |-> << >>]
    ELSE [ws |-> << >>, es |-> << MemberError(v) >>]

\* Lines 74-90: the loop of getCPUFlagsValidator from position pos on.
RECURSIVE CPUFlagsLoop(_, _, _)
CPUFlagsLoop(list, pos, acc) ==
    IF pos > Len(list) THEN acc
    ELSE IF list[pos].type # "string"
         THEN [acc EXCEPT !.es = Append(@, TypeError(Ptr(pos - 1)))]
         ELSE LET r == StringInSlice(CPUFlags, list[pos].str)
                  next == [ws |-> acc.ws \o r.ws, es |-> acc.es \o r.es]
              IN  IF Len(next.es) > 0 THEN next
                  ELSE CPUFlagsLoop(list, pos + 1, next)

\* getCPUFlagsValidator()(i, k).
getCPUFlagsValidator(i) ==
    IF i.type # "list"
    THEN [ws |-> << >>, es |-> << TypeError(Nil) >>]
    ELSE CPUFlagsLoop(i.list, 1, [ws |-> << >>, es |-> << >>])

ValidateVLANIDs ==
    /\ valIn.fn = "getVLANIDsValidator"
    /\ valOut = Nil
    /\ valOut' = Ptr(getVLANIDsValidator(valIn.arg))
    /\ UNCHANGED << valIn, diskVars, netVars >>

ValidateCPUFlags ==
    /\ valIn.fn = "getCPUFlagsValidator"
    /\ valOut = Nil
    /\ valOut' = Ptr(getCPUFlagsValidator(valIn.arg))
    /\ UNCHANGED << valIn, diskVars, netVars >>

\* A list validator is about to be called with a list, or with a value that
\* is no list.
InitList ==
    /\ \/ /\ valIn \in [ fn : { "getVLANIDsValidator" },
                         arg : { ListValue(l) : l \in SeqsUpTo(VLANElements, MaxList) }
                               \cup { IntValue(1) } ]
       \/ /\ valIn \in [ fn : { "getCPUFlagsValidator" },
                         arg : { ListValue(l) : l \in SeqsUpTo(CPUFlagElements, MaxList) }
                               \cup { StringValue("+aes") } ]
    /\ valOut = Nil
    /\ DiskIdle
    /\ NetIdle

NextList == ValidateVLANIDs \/ ValidateCPUFlags

SpecList == InitList /\ [][NextList]_vars

\* ------------------------------------------------------------------------
\* Properties of the list validators
\* ------------------------------------------------------------------------

\* The Go indices of the VLAN ids of a list that are neither -1 nor in [1, 4094].
OffendingVLANs(l) ==
    { p - 1 : p \in { q \in 1..Len(l) : l[q].int # -1 /\ (l[q].int < 1 \/ l[q].int > 4094) } }

\* The Go indices of the elements of a list that are none of the CPU flags.
OffendingFlags(l) == { p - 1 : p \in { q \in 1..Len(l) : l[q].str \notin CPUFlags } }

AllOfType(l, t) == \A p \in 1..Len(l) : l[p].type = t

\* C8: on a list of integers the VLAN id validator reports one error per
\* element that is neither -1 nor within [1, 4094], tagged with the element's
\* index, and none when there is no such element; it does not stop at the
\* first, so k offending elements give k errors.  The same every-error rule
\* holds for the CPU flags validator on a list of strings.
C8_OneErrorPerOffendingElement ==
    (valOut # Nil /\ valIn.arg.type = "list") =>
        LET l == valIn.arg.list
            es == Deref(valOut).es
        IN  /\ (valIn.fn = "getVLANIDsValidator" /\ AllOfType(l, "int")) =>
                   /\ Len(es) = Cardinality(OffendingVLANs(l))
                   /\ \A x \in OffendingVLANs(l) :
                        \E e \in 1..Len(es) : es[e] = RangeError(Ptr(x), l[x + 1].int)
            /\ (valIn.fn = "getCPUFlagsValidator" /\ AllOfType(l, "string")) =>
                   Len(es) = Cardinality(OffendingFlags(l))

\* ------------------------------------------------------------------------
\* parseDiskSize (proxmoxtf/utils.go)
\* ------------------------------------------------------------------------
\* A string is a sequence of one-character strings here.

\* Bound: the longest size string, apart from the examples listed below.
MaxSizeLen == 4

DigitChars == << "0", "1", "2", "3", "4", "5", "6", "7", "8", "9" >>

Digits == { DigitChars[i] : i \in 1..Len(DigitChars) }

DigitValue(c) == (CHOOSE i \in 1..Len(DigitChars) : DigitChars[i] = c) - 1

\* strings.HasSuffix(s, suffix) and strings.TrimSuffix(s, suffix), for the
\* one-character suffixes parseDiskSize uses.
HasSuffix(s, suffix) == Len(s) >= 1 /\ s[Len(s)] = suffix

TrimSuffix(s, suffix) == IF HasSuffix(s, suffix) THEN SubSeq(s, 1, Len(s) - 1) ELSE s

\* The digits of strconv.Atoi, most significant first: n = n*10 + digit.
RECURSIVE AtoiDigits(_, _)
AtoiDigits(s, n) ==
    IF s = << >> THEN [n |-> n, err |-> ""]
    ELSE IF Head(s) \notin Digits THEN [n |-> 0, err |-> "invalid syntax"]
         ELSE AtoiDigits(Tail(s), n * 10 + DigitValue(Head(s)))

\* strconv.Atoi(s): an optional sign, then one or more decimal digits; the
\* result is 0 with a syntax error otherwise.  (The strings of the model are
\* far too short for its range error.)
Atoi(s) ==
    IF s = << >> THEN [n |-> 0, err |-> "invalid syntax"]
    ELSE LET signed == Head(s) \in { "+", "-" }
             body == IF signed THEN Tail(s) ELSE s
             r == AtoiDigits(body, 0)
         IN  IF body = << >> THEN [n |-> 0, err |-> "invalid syntax"]
             ELSE IF r.err # "" THEN r
                  ELSE IF Head(s) = "-" THEN [n |-> 0 - r.n, err |-> ""] ELSE r

\* float64 values are modelled as exact fractions [num, den], den > 0, which
\* is what the float64 operations below compute for integers of magnitude
\* below 2^53.
Float64(n) == [num |-> n, den |-> 1]

FloatMul(x, k) == [num |-> x.num * k, den |-> x.den]

FloatDiv(x, k) == [num |-> x.num, den |-> x.den * k]

\* A variant that rounds down.
Floor(x) == [num |-> x.num \div x.den, den |-> 1]

\* math.Ceil.
Ceil(x) == [num |-> 0 - ((0 - x.num) \div x.den), den |-> 1]

\* int(f) of a float64 that holds a whole number.
FloatToInt(x) == x.num \div x.den

\* parseDiskSize(size): [size, err], err = "" for the nil error.
parseDiskSize(size) ==
    IF size = Nil THEN [size |-> 0, err |-> ""]
    ELSE LET str == Deref(size)
         IN  IF HasSuffix(str, "T")
             THEN LET r == Atoi(TrimSuffix(str, "T"))
                  IN  IF r.err # "" THEN [size |-> -1, err |-> r.err]
                      ELSE [size |-> FloatToInt(Ceil(FloatMul(Float64(r.n), 1024))), err |-> ""]
             ELSE IF HasSuffix(str, "G")
                  THEN LET r == Atoi(TrimSuffix(str, "G"))
                       IN  IF r.err # "" THEN [size |-> -1, err |-> r.err]
                           ELSE [size |-> r.n, err |-> ""]
                  ELSE IF HasSuffix(str, "M")
                       THEN LET r == Atoi(TrimSuffix(str, "M"))
                            IN  IF r.err # "" THEN [size |-> -1, err |-> r.err]
                                ELSE [size |-> FloatToInt(Ceil(FloatDiv(Float64(r.n), 1024))),
                                      err |-> ""]
                       ELSE [size |-> -1, err |-> "Cannot parse storage size"]

\* The characters of the modelled size strings.
SizeChars == { "0", "1", "2", "5", "-", "+", "M", "G", "T" }

\* Size strings longer than MaxSizeLen that are checked as well: the spec's
\* examples and the values around the multiples of 1024.
SizeExamples ==
    { << "1", "0", "2", "4", "M" >>, << "1", "0", "2", "3", "M" >>,
      << "1", "0", "2", "5", "M" >>, << "2", "0", "4", "8", "M" >>,
      << "-", "1", "0", "2", "4", "M" >>, << "-", "1", "0", "2", "5", "M" >>,
      << "5", "X" >>, << "1", "0", "g" >>, << "1", "0", "G", "B" >>, << "1", ".", "5", "G" >> }

ParseDiskSize ==
    /\ valIn.fn = "parseDiskSize"
    /\ valOut = Nil
    /\ valOut' = Ptr(parseDiskSize(valIn.arg))
    /\ UNCHANGED << valIn, diskVars, netVars >>

InitSize ==
    /\ valIn \in [ fn : { "parseDiskSize" },
                   arg : { Nil } \cup { Ptr(str) : str \in SeqsUpTo(SizeChars, MaxSizeLen)
                                                        \cup SizeExamples } ]
    /\ valOut = Nil
    /\ DiskIdle
    /\ NetIdle

NextSize == ParseDiskSize

SpecSize == InitSize /\ [][NextSize]_vars

\* ------------------------------------------------------------------------
\* Properties of parseDiskSize
\* ------------------------------------------------------------------------

\* A numeral: an optional sign and one or more decimal digits.
IsNumeral(b) ==
    /\ Len(b) >= 1
    /\ \A p \in 2..Len(b) : b[p] \in { "0", "1", "2", "3", "4", "5", "6", "7", "8", "9" }
    /\ \/ b[1] \in { "0", "1", "2", "3", "4", "5", "6", "7", "8", "9" }
       \/ b[1] \in { "+", "-" } /\ Len(b) >= 2

RECURSIVE Pow10(_)
Pow10(e) == IF e = 0 THEN 1 ELSE 10 * Pow10(e - 1)

RECURSIVE SumTo(_, _, _)
SumTo(b, first, p) ==
    IF p < first THEN 0
    ELSE SumTo(b, first, p - 1) + DigitValue(b[p]) * Pow10(Len(b) - p)

\* The integer a numeral denotes.
NumeralValue(b) ==
    IF b[1] = "-" THEN 0 - SumTo(b, 2, Len(b))
    ELSE IF b[1] = "+" THEN SumTo(b, 2, Len(b))
    ELSE SumTo(b, 1, Len(b))

\* The least integer that is at least n / 1024.
CeilingOver1024(n) ==
    CHOOSE c \in ((n \div 1024) - 1)..((n \div 1024) + 1) : (c - 1) * 1024 < n /\ n <= c * 1024

SizeParsed == valOut # Nil /\ valIn.fn = "parseDiskSize"

\* What the claims say of every result but that of an "M" size.
SizeRulesButM ==
    LET out == Deref(valOut)
    IN  IF valIn.arg = Nil THEN out = [size |-> 0, err |-> ""]
        ELSE LET str == Deref(valIn.arg)
                 lead == SubSeq(str, 1, Len(str) - 1)
                 unit == IF str = << >> THEN "" ELSE str[Len(str)]
             IN  IF unit \in { "T", "G", "M" } /\ IsNumeral(lead)
                 THEN /\ out.err = ""
                      /\ unit = "T" => out.size = NumeralValue(lead) * 1024
                      /\ unit = "G" => out.size = NumeralValue(lead)
                 ELSE out.err # "" /\ out.size = -1

\* The numeral of an "M" size that parseDiskSize has parsed, as a set: empty
\* when the input is no well-formed "M" size.
MegaValue ==
    IF valIn.arg = Nil \/ valIn.arg = Ptr(<< >>) THEN {}
    ELSE LET str == Deref(valIn.arg)
         IN  IF str[Len(str)] = "M" /\ IsNumeral(SubSeq(str, 1, Len(str) - 1))
             THEN { NumeralValue(SubSeq(str, 1, Len(str) - 1)) }
             ELSE {}

\* C9 as stated: nil gives 0 and no error; "<n>T" gives n*1024; "<n>G"
\* gives n; "<n>M" gives ceiling(n/1024), so that every M value that is not
\* an exact multiple of 1024 yields at least 1, for every integer n, negative
\* ones included; an input with no T/G/M suffix or a non-numeric leading
\* portion gives an error and -1.
C9_SizeAsStated ==
    SizeParsed =>
        /\ SizeRulesButM
        /\ \A n \in MegaValue :
             /\ Deref(valOut).size = CeilingOver1024(n)
             /\ n % 1024 # 0 => Deref(valOut).size >= 1

\* C9 as amended: as above, but "<n>M" gives ceiling(n/1024), which is at
\* least 1 exactly for the positive n (multiples of 1024 or not) and is 0 or
\* less for every n <= 0.
C9_SizeCeiling ==
    SizeParsed =>
        /\ SizeRulesButM
        /\ \A n \in MegaValue :
             /\ Deref(valOut).size = CeilingOver1024(n)
             /\ n >= 1 <=> Deref(valOut).size >= 1

\* parseDiskSize has returned 1 for "512M".
C9_Witness ==
    /\ SizeParsed
    /\ valIn.arg = Ptr(<< "5", "1", "2", "M" >>)
    /\ Deref(valOut) = [size |-> 1, err |-> ""]

\* ------------------------------------------------------------------------
\* getMACAddressValidator (proxmoxtf/utils.go)
\* ------------------------------------------------------------------------

\* Bound: how many characters of the well-formed address an input replaces.
MaxEdits == 1

UpperAZ ==
    { "A", "B", "C", "D", "E", "F", "G", "H", "I", "J", "K", "L", "M",
      "N", "O", "P", "Q", "R", "S", "T", "U", "V", "W", "X", "Y", "Z" }

\* The character class [A-Z0-9].
InClass(c) == c \in UpperAZ \cup Digits

\* [A-Z0-9]{2} at position i.
MatchPair(str, i) == i + 1 <= Len(str) /\ InClass(str[i]) /\ InClass(str[i + 1])

\* (:[A-Z0-9]{2}){n}$ at position i.
RECURSIVE MatchGroups(_, _, _)
MatchGroups(str, i, n) ==
    IF n = 0 THEN i = Len(str) + 1
    ELSE /\ i <= Len(str)
         /\ str[i] = ":"
         /\ MatchPair(str, i + 1)
         /\ MatchGroups(str, i + 3, n - 1)

\* regexp.MustCompile(`^[A-Z0-9]{2}(:[A-Z0-9]{2}){5}$`).MatchString(v).
MatchString(str) == MatchPair(str, 1) /\ MatchGroups(str, 3, 5)

PatternError(got) == [kind |-> "pattern", index |-> Nil, got |-> got]

\* getMACAddressValidator()(i, k).
getMACAddressValidator(i) ==
    IF i.type # "string"
    THEN [ws |-> << >>, es |-> << TypeError(Nil) >>]
    ELSE IF i.str # << >> /\ ~MatchString(i.str)
         THEN [ws |-> << >>, es |-> << PatternError(i.str) >>]
         ELSE [ws |-> << >>, es |-> << >>]

\* The address of the validator's own message.
ExampleMAC ==
    << "A", "0", ":", "B", "1", ":", "C", "2", ":", "D", "3", ":", "E", "4", ":", "F", "5" >>

\* The characters an input may put in place of one of the example's.
MACChars == { "F", "G", "Z", "9", "a", "f", ":", "-" }

\* The example with the characters at the positions of `at` replaced.
RECURSIVE Edited(_)
Edited(at) ==
    IF at = {} THEN { ExampleMAC }
    ELSE LET p == CHOOSE x \in at : TRUE
         IN  { [str EXCEPT ![p] = c] : str \in Edited(at \ {p}), c \in MACChars }

\* The modelled inputs: the example with up to MaxEdits characters replaced,
\* its prefixes (the empty string among them), the example with one more
\* character or one more pair, and the spec's lower-case example.
MACInputs ==
    UNION { Edited(at) : at \in { x \in SUBSET (1..Len(ExampleMAC)) : Cardinality(x) <= MaxEdits } }
    \cup { SubSeq(ExampleMAC, 1, n) : n \in 0..Len(ExampleMAC) }
    \cup { ExampleMAC \o << c >> : c \in MACChars }
    \cup { ExampleMAC \o << ":", "0", "A" >> }
    \cup { << "a", "0", ":", "b", "1", ":", "c", "2", ":", "d", "3", ":", "e", "4", ":", "f", "5" >> }

ValidateMACAddress ==
    /\ valIn.fn = "getMACAddressValidator"
    /\ valOut = Nil
    /\ valOut' = Ptr(getMACAddressValidator(valIn.arg))
    /\ UNCHANGED << valIn, diskVars, netVars >>

InitMAC ==
    /\ valIn \in [ fn : { "getMACAddressValidator" },
                   arg : { [type |-> "string", str |-> str] : str \in MACInputs }
                         \cup { IntValue(1) } ]
    /\ valOut = Nil
    /\ DiskIdle
    /\ NetIdle

NextMAC == ValidateMACAddress

SpecMAC == InitMAC /\ [][NextMAC]_vars

\* ------------------------------------------------------------------------
\* Properties of getMACAddressValidator
\* ------------------------------------------------------------------------

HexDigits ==
    { "0", "1", "2", "3", "4", "5", "6", "7", "8", "9", "A", "B", "C", "D", "E", "F" }

\* Six colon-separated pairs of upper-case hexadecimal digits.
IsSixHexPairs(str) ==
    /\ Len(str) = 17
    /\ \A p \in 1..17 : IF p % 3 = 0 THEN str[p] = ":" ELSE str[p] \in HexDigits

\* C10: the MAC address validator accepts a string exactly when it is six
\* colon-separated pairs of upper-case hexadecimal digits (0-9 and A-F only),
\* and rejects every other string with a pattern error.  (Stated for the
\* non-empty strings: the empty string, which the validator lets pass as an
\* attribute left unset, is not held against the claim.)
C10_AcceptsExactlyHexPairs ==
    ( /\ valOut # Nil
      /\ valIn.fn = "getMACAddressValidator"
      /\ valIn.arg.type = "string"
      /\ valIn.arg.str # << >> ) =>
        IF IsSixHexPairs(valIn.arg.str)
        THEN Deref(valOut).es = << >>
        ELSE Deref(valOut).es = << PatternError(valIn.arg.str) >>

====
